---------------------------- MODULE Spec2Model ----------------------------
(***************************************************************************)
(* A model of DynamicWalker: the dynamic graph engine (DynamicGraph and    *)
(* its attachment strategies) and the biased random walker that traverses  *)
(* it (BiasedRandomWalker).                                                *)
(*                                                                         *)
(* Encoding.                                                               *)
(*  - Floats are fixed-point integers: the float 1.0 is One (10240), so    *)
(*    0.1 is 1024 and repeated halving is exact for ten steps.  The aging  *)
(*    factors and decay factors are per-mille integers (500 is 0.5, 1000   *)
(*    is 1.0); the factors 0.25 and 0.5 stand for any factor below 1.      *)
(*  - The networkx graph self.G is the set G_nodes, the set G_edges of     *)
(*    two-element sets, and the attribute maps activity, birth_step and    *)
(*    weight.  Node iteration order is insertion order, which is the       *)
(*    order of the ids; the order of a node's adjacency and of a Python    *)
(*    set is not tracked: where the code's result depends on it (a tie in  *)
(*    a stable sort, the first of several maxima) every outcome is taken.  *)
(*  - A random draw is a choice: random.random() < p can succeed when      *)
(*    p > 0 and can fail when p < 1; random.choice takes any element;      *)
(*    random.choices takes any element of positive weight.                 *)
(*  - A Python exception that leaves a call is recorded in raised, and the *)
(*    fields assigned before it keep their new values.                     *)
(***************************************************************************)
EXTENDS Integers, Sequences, FiniteSets, TLC

VARIABLES
    \* DynamicGraph
    config,             \* self.config plus the variant of self.strategy
    strategy_name,      \* self.strategy_name, a sequence of characters
    G_nodes,            \* self.G.nodes
    G_edges,            \* self.G.edges, each a set {u, v}
    activity,           \* self.G.nodes[n]['activity']
    birth_step,         \* self.G.nodes[n]['birth_step']
    weight,             \* self.G.edges[u, v]['weight']
    time_step,          \* self.time_step
    node_counter,       \* self.node_counter
    components_dirty,   \* self.components_dirty
    components,         \* self._components (a list of sets; <<>> while None)
    components_none,    \* self._components is None
    activity_heap,      \* self._activity_heap, in pop order
    node_activity,      \* self._node_activity
    strategy_time_step, \* self.strategy.time_step
    \* BiasedRandomWalker
    walker,             \* the walker's construction parameters
    current_node,       \* self.current_node
    path,               \* self.path (deque, newest last)
    visit_count,        \* self.visit_count
    teleport_probability, \* self.teleport_probability
    \* bookkeeping of the run
    raised,             \* the exception that left the last call, or "none"
    last,               \* the last call and the branch it took
    removal,            \* what the removal stage of the last update did
    prev_node,          \* the walker's position when the last step was called
    updates,            \* number of calls of update and of the engine's other
                        \* methods so far
    steps,              \* number of step / reset calls so far
    call                \* arguments and return value of the last primitive call

graph_vars == <<config, strategy_name, G_nodes, G_edges, activity, birth_step, weight, time_step,
                node_counter, components_dirty, components, components_none,
                activity_heap, node_activity, strategy_time_step>>
walker_vars == <<walker, current_node, path, visit_count, teleport_probability>>
vars == <<graph_vars, walker_vars, raised, last, removal, prev_node, updates, steps,
          call>>

-----------------------------------------------------------------------------
(* Bounds of the model *)

\* node ids the counter may hand out: 0 .. MaxNodeId
MaxNodeId == 5
\* calls of update (and direct calls of enforce_degree_limits,
\* enforce_component_rules, _add_edge and _remove_edge) in one run
MaxUpdates == 2
\* calls of step / reset in one run
MaxSteps == 2

-----------------------------------------------------------------------------
(* Program constants *)

\* the float 1.0: initial activity and default edge weight
One == 10240
\* max(0.1, ...) in update_activity
ActivityFloor == 1024
\* any per-mille factor is over this
PerMille == 10 * 100
\* the value step() leaves in teleport_probability after a forced teleport (0.1)
ResetTeleportProbability == 100
\* random.random() < 1.0 always holds
Certain == PerMille
\* Python's None, as a position or a node
None == 0 - 1

Min(a, b) == IF a <= b THEN a ELSE b
Max(a, b) == IF a >= b THEN a ELSE b

MinOf(S) == CHOOSE x \in S : \A y \in S : x <= y
MaxOf(S) == CHOOSE x \in S : \A y \in S : x >= y

RECURSIVE SumOver(_, _)
SumOver(f, S) ==
    IF S = {} THEN 0
    ELSE LET x == CHOOSE y \in S : TRUE IN f[x] + SumOver(f, S \ {x})

RECURSIVE Pow(_, _)
Pow(b, e) == IF e <= 0 THEN 1 ELSE b * Pow(b, e - 1)

\* x * factor for a per-mille factor
Scaled(x, factor) == (x * factor) \div PerMille

\* the subsets of S with exactly k elements
KSubsets(S, k) == {T \in SUBSET S : Cardinality(T) = k}

\* the first k of S sorted by score, highest first, every order of a tie taken
TopK(S, score(_), k) ==
    {T \in KSubsets(S, Min(k, Cardinality(S))) :
        \A c \in T, d \in S \ T : score(c) >= score(d)}

-----------------------------------------------------------------------------
(* The graph self.G *)

Edge(u, v) == {u, v}
has_edge(g, u, v) == Edge(u, v) \in g.G_edges
neighbors(g, n) == {m \in g.G_nodes : has_edge(g, n, m)}
degree(g, n) == Cardinality(neighbors(g, n))

\* nodes reachable from the set R
RECURSIVE Reach(_, _)
Reach(g, R) ==
    LET next == R \cup UNION {neighbors(g, n) : n \in R}
    IN IF next = R THEN R ELSE Reach(g, next)

node_connected_component(g, n) == Reach(g, {n})

\* nx.connected_components: the components in the order of their first node
RECURSIVE ComponentsFrom(_, _)
ComponentsFrom(g, left) ==
    IF left = {} THEN <<>>
    ELSE LET c == node_connected_component(g, MinOf(left))
         IN <<c>> \o ComponentsFrom(g, left \ c)

connected_components(g) == ComponentsFrom(g, g.G_nodes)

Range(s) == {s[i] : i \in DOMAIN s}

\* a faulty removal: the node goes, its incident edges stay
RemoveNodeKeepingEdges(g, n) ==
    [g EXCEPT !.G_nodes = @ \ {n},
              !.activity = [m \in g.G_nodes \ {n} |-> g.activity[m]],
              !.birth_step = [m \in g.G_nodes \ {n} |-> g.birth_step[m]]]

\* G.remove_node: the node, its attributes and its incident edges go
remove_node(g, n) ==
    LET keep == {e \in g.G_edges : n \notin e}
    IN [g EXCEPT !.G_nodes = @ \ {n},
                 !.G_edges = keep,
                 !.activity = [m \in g.G_nodes \ {n} |-> g.activity[m]],
                 !.birth_step = [m \in g.G_nodes \ {n} |-> g.birth_step[m]],
                 !.weight = [e \in keep |-> g.weight[e]]]

\* G.remove_edges_from
remove_edges_from(g, es) ==
    LET keep == g.G_edges \ es
    IN [g EXCEPT !.G_edges = keep, !.weight = [e \in keep |-> g.weight[e]]]

\* the function f with its values computed once (a dict that has been
\* built, as opposed to the expression that builds it)
RECURSIVE BuiltOn(_, _)
BuiltOn(f, S) ==
    IF S = {} THEN <<>>
    ELSE LET x == CHOOSE y \in S : TRUE IN (x :> f[x]) @@ BuiltOn(f, S \ {x})

Built(f) == BuiltOn(f, DOMAIN f)

\* a function extended or overwritten at one point
Put(f, k, v) == [x \in DOMAIN f \cup {k} |-> IF x = k THEN v ELSE f[x]]

-----------------------------------------------------------------------------
(* The activity index: heapq over (activity, node) pairs *)

\* tuple order of (activity, node)
EntryLess(a, b) == a[1] < b[1] \/ (a[1] = b[1] /\ a[2] < b[2])

\* heapq.heappush: the heap is held in pop order
heappush(h, e) ==
    LET k == Cardinality({i \in DOMAIN h : ~EntryLess(e, h[i])})
    IN SubSeq(h, 1, k) \o <<e>> \o SubSeq(h, k + 1, Len(h))

\* DynamicGraph._init_node
_init_node(g, node) ==
    [g EXCEPT !.activity = Put(g.activity, node, One),
              !.birth_step = Put(g.birth_step, node, g.time_step),
              !.node_activity = Put(g.node_activity, node, One),
              !.activity_heap = heappush(g.activity_heap, <<One, node>>)]

\* DynamicGraph._add_edge: <<graph, success flag>>
_add_edge(g, u, v) ==
    IF u = v \/ has_edge(g, u, v)
    THEN <<g, FALSE>>
    ELSE <<[g EXCEPT !.G_nodes = @ \cup {u, v},
                     !.G_edges = @ \cup {Edge(u, v)},
                     !.weight = Put(g.weight, Edge(u, v), One),
                     !.components_dirty = TRUE], TRUE>>

\* DynamicGraph._remove_edge: <<graph, success flag>>
_remove_edge(g, u, v) ==
    IF has_edge(g, u, v)
    THEN <<[remove_edges_from(g, {Edge(u, v)}) EXCEPT !.components_dirty = TRUE], TRUE>>
    ELSE <<g, FALSE>>

\* a faulty aging: the activity is scaled without the floor
UpdateActivityWithoutFloor(g) ==
    [g EXCEPT !.time_step = @ + 1,
              !.activity = [n \in g.G_nodes |->
                               Scaled(g.activity[n], g.config.node_aging_factor)],
              !.weight = [e \in g.G_edges |->
                             Scaled(g.weight[e], g.config.edge_aging_factor)]]

\* DynamicGraph.update_activity; data['activity'] of a node that has no such
\* attribute is a KeyError, raised after time_step was advanced
update_activity(g) ==
    IF \E n \in g.G_nodes : n \notin DOMAIN g.activity
    THEN [g EXCEPT !.time_step = @ + 1, !.raised = "KeyError"]
    ELSE
    LET node_activities ==
            [n \in g.G_nodes |->
                Max(ActivityFloor, Scaled(g.activity[n], g.config.node_aging_factor))]
    IN [g EXCEPT !.time_step = @ + 1,
                 !.activity = node_activities,
                 !.node_activity =
                     [n \in DOMAIN g.node_activity \cup g.G_nodes |->
                         IF n \in g.G_nodes THEN node_activities[n]
                         ELSE g.node_activity[n]],
                 !.weight = [e \in g.G_edges |->
                                Scaled(g.weight[e], g.config.edge_aging_factor)]]

\* self._node_activity.get(node, -1)
CurrentActivity(g, node) ==
    IF node \in DOMAIN g.node_activity THEN g.node_activity[node] ELSE 0 - 1

\* DynamicGraph.get_least_active_node: <<graph, node or None>>; entries popped
\* before the first live one are gone, the live one is pushed back
RECURSIVE get_least_active_node(_)
get_least_active_node(g) ==
    IF g.activity_heap = <<>> THEN <<g, None>>
    ELSE LET e == Head(g.activity_heap)
             popped == [g EXCEPT !.activity_heap = Tail(@)]
         IN IF CurrentActivity(g, e[2]) = e[1] /\ e[2] \in g.G_nodes
            THEN <<g, e[2]>>
            ELSE get_least_active_node(popped)

-----------------------------------------------------------------------------
(* Sequencing of stages whose random draws give several outcomes *)

Ok(g) == g.raised = "none"

\* every outcome of F on every outcome in S; an exception ends the call
Then(S, F(_)) == UNION {IF Ok(g) THEN F(g) ELSE {g} : g \in S}

-----------------------------------------------------------------------------
(* The component cache *)

\* DynamicGraph._get_components: the graph with its cache filled
_get_components(g) ==
    IF g.components_dirty \/ g.components_none
    THEN [g EXCEPT !.components = connected_components(g),
                   !.components_none = FALSE,
                   !.components_dirty = FALSE]
    ELSE g

\* next((comp for comp in components if node in comp), set())
ComponentOf(comps, node) ==
    IF \E i \in DOMAIN comps : node \in comps[i]
    THEN comps[MinOf({i \in DOMAIN comps : node \in comps[i]})]
    ELSE {}

\* comp_dict of _boost_connectivity: the last component listing the node
CompDictGet(comps, node) ==
    IF \E i \in DOMAIN comps : node \in comps[i]
    THEN comps[MaxOf({i \in DOMAIN comps : node \in comps[i]})]
    ELSE {}

-----------------------------------------------------------------------------
(* Degree limits *)

RECURSIVE AddEdgesFrom(_, _, _)
\* _add_edge(node, other) for every other in targets
AddEdgesFrom(g, node, targets) ==
    IF targets = {} THEN g
    ELSE LET t == CHOOSE x \in targets : TRUE
         IN AddEdgesFrom(_add_edge(g, node, t)[1], node, targets \ {t})

RECURSIVE RemoveEdgesFrom(_, _, _)
\* _remove_edge(node, neighbor) for every neighbor in targets
RemoveEdgesFrom(g, node, targets) ==
    IF targets = {} THEN g
    ELSE LET t == CHOOSE x \in targets : TRUE
         IN RemoveEdgesFrom(_remove_edge(g, node, t)[1], node, targets \ {t})

\* a faulty boost: one edge is added however many are needed
BoostByOneEdge(g, node, min_degree) ==
    LET needed == min_degree - degree(g, node)
        candidates == {other \in (g.G_nodes \ neighbors(g, node)) \ {node} :
                          degree(g, other) < g.config.max_degree}
    IN IF needed <= 0 THEN {g}
       ELSE {AddEdgesFrom(g, node, T) : T \in KSubsets(candidates, Min(1, Cardinality(candidates)))}

\* DynamicGraph._boost_connectivity: every graph it can leave
_boost_connectivity(g, node, min_degree) ==
    LET needed == min_degree - degree(g, node)
    IN IF needed <= 0 THEN {g}
       ELSE
       LET gc == _get_components(g)
           comps == gc.components
           node_comp == ComponentOf(comps, node)
           non_neighbors == (gc.G_nodes \ neighbors(gc, node)) \ {node}
           candidates == {other \in non_neighbors :
                             degree(gc, other) < gc.config.max_degree}
           \* priority * activity, doubled: 1.5 is 3 and 1.0 is 2
           score(other) ==
               (IF CompDictGet(comps, other) # node_comp THEN 3 ELSE 2)
                   * gc.activity[other]
       IN IF \E other \in candidates : other \notin DOMAIN gc.activity
          THEN {[gc EXCEPT !.raised = "KeyError"]}
          ELSE {AddEdgesFrom(gc, node, T) : T \in TopK(candidates, score, needed)}

\* a faulty reduction: drops one edge fewer than the excess
ReduceKeepingOneExcess(g, node, max_degree) ==
    LET excess == degree(g, node) - max_degree - 1
        score(neighbor) ==
            4 * (One - g.weight[Edge(node, neighbor)])
                + 6 * (One - g.activity[neighbor])
    IN IF excess <= 0 THEN {g}
       ELSE {RemoveEdgesFrom(g, node, T) : T \in TopK(neighbors(g, node), score, excess)}

\* DynamicGraph._reduce_connectivity: every graph it can leave
_reduce_connectivity(g, node, max_degree) ==
    LET excess == degree(g, node) - max_degree
    IN IF excess <= 0 THEN {g}
       ELSE
       LET \* 0.4 * (1 - weight) + 0.6 * (1 - activity), times ten
           score(neighbor) ==
               4 * (One - g.weight[Edge(node, neighbor)])
                   + 6 * (One - g.activity[neighbor])
       IN IF \E nb \in neighbors(g, node) : nb \notin DOMAIN g.activity
          THEN {[g EXCEPT !.raised = "KeyError"]}
          ELSE {RemoveEdgesFrom(g, node, T) : T \in TopK(neighbors(g, node), score, excess)}

RECURSIVE BoostAll(_, _, _)
\* the loop over nodes_to_boost, in node order
BoostAll(S, todo, min_degree) ==
    IF todo = {} THEN S
    ELSE LET n == MinOf(todo)
             boost(g) == _boost_connectivity(g, n, min_degree)
         IN BoostAll(Then(S, boost), todo \ {n}, min_degree)

RECURSIVE ReduceAll(_, _, _)
\* the loop over nodes_to_reduce, in node order
ReduceAll(S, todo, max_degree) ==
    IF todo = {} THEN S
    ELSE LET n == MinOf(todo)
             reduce(g) == _reduce_connectivity(g, n, max_degree)
         IN ReduceAll(Then(S, reduce), todo \ {n}, max_degree)

\* DynamicGraph.enforce_degree_limits: both lists are taken from the degrees
\* at the start of the call
enforce_degree_limits(g) ==
    LET min_degree == g.config.min_degree
        max_degree == g.config.max_degree
        nodes_to_boost == {n \in g.G_nodes : degree(g, n) < min_degree}
        nodes_to_reduce == {n \in g.G_nodes : degree(g, n) > max_degree}
    IN ReduceAll(BoostAll({g}, nodes_to_boost, min_degree), nodes_to_reduce, max_degree)

-----------------------------------------------------------------------------
(* Component rules *)

\* sorted(components, key=len): stable, so equal lengths keep the list order
SortedByLen(comps) ==
    LET n == Len(comps)
        before(i, j) ==
            Cardinality(comps[i]) < Cardinality(comps[j])
                \/ (Cardinality(comps[i]) = Cardinality(comps[j]) /\ i < j)
        rank(i) == 1 + Cardinality({j \in 1..n : before(j, i)})
    IN [k \in 1..n |-> comps[CHOOSE i \in 1..n : rank(i) = k]]

\* sorted(components, key=len, reverse=True): stable as well
SortedByLenReverse(comps) ==
    LET n == Len(comps)
        before(i, j) ==
            Cardinality(comps[i]) > Cardinality(comps[j])
                \/ (Cardinality(comps[i]) = Cardinality(comps[j]) /\ i < j)
        rank(i) == 1 + Cardinality({j \in 1..n : before(j, i)})
    IN [k \in 1..n |-> comps[CHOOSE i \in 1..n : rank(i) = k]]

\* max(components, key=len): the first of the largest
LargestComponent(comps) ==
    comps[MinOf({i \in DOMAIN comps :
                    \A j \in DOMAIN comps : Cardinality(comps[i]) >= Cardinality(comps[j])})]

\* one random cross edge from comp to the node set into
CrossEdge(g, comp, into) ==
    {_add_edge(g, node_from, node_to)[1] : node_from \in comp, node_to \in into}

RECURSIVE MergeLoop(_, _, _, _)
\* the loop of _merge_components over merge_components[i..]
MergeLoop(S, merge, i, keep_components) ==
    IF i > Len(merge) THEN S
    ELSE LET one(g) == IF merge[i] = {} THEN {g}
                       ELSE CrossEdge(g, merge[i], keep_components)
         IN MergeLoop(Then(S, one), merge, i + 1, keep_components)

\* a faulty merge: the excess components are joined to one another
MergeAmongExcess(g, comps) ==
    LET sorted_comps == SortedByLen(comps)
        n == Len(sorted_comps)
        cut == IF g.config.target_components = 0 THEN 0
               ELSE Max(0, n - g.config.target_components)
        merge_components == SubSeq(sorted_comps, 1, cut)
    IN MergeLoop({g}, merge_components, 1,
                 UNION {merge_components[i] : i \in 1..cut})

\* DynamicGraph._merge_components
_merge_components(g, comps) ==
    LET sorted_comps == SortedByLen(comps)
        n == Len(sorted_comps)
        keep_count == g.config.target_components
        \* sorted_comps[:-keep_count] and sorted_comps[-keep_count:]
        cut == IF keep_count = 0 THEN 0 ELSE Max(0, n - keep_count)
        merge_components == SubSeq(sorted_comps, 1, cut)
        keep_components == UNION {sorted_comps[i] : i \in (cut + 1)..n}
    IN MergeLoop({g}, merge_components, 1, keep_components)

\* breadth-first layers of the subgraph on C from the frontier
RECURSIVE Layers(_, _, _, _)
Layers(g, C, frontier, seen) ==
    IF frontier = {} THEN <<>>
    ELSE LET next == (UNION {neighbors(g, n) \cap C : n \in frontier}) \ seen
         IN <<frontier>> \o Layers(g, C, next, seen \cup next)

\* shortest-path lengths from s inside C, for the nodes reached
Distances(g, C, s) ==
    LET ls == Layers(g, C, {s}, {s})
    IN [t \in UNION {ls[i] : i \in DOMAIN ls} |->
           (CHOOSE i \in DOMAIN ls : t \in ls[i]) - 1]

\* the number of shortest paths from the source to every node reached inside
\* C, layer by layer: a node of the next layer counts the paths to its
\* neighbours in the current one
RECURSIVE PathCounts(_, _, _, _)
PathCounts(g, C, frontier, sigma) ==
    LET seen == DOMAIN sigma
        next == (UNION {neighbors(g, n) \cap C : n \in frontier}) \ seen
    IN IF next = {} THEN sigma
       ELSE PathCounts(g, C, next,
                Built([x \in seen \cup next |->
                          IF x \in next
                          THEN SumOver(sigma, neighbors(g, x) \cap frontier)
                          ELSE sigma[x]]))

\* common denominator of the path-count fractions (counts up to 10)
PathDenominator == 8 * 9 * 5 * 7

\* nx.betweenness_centrality of the subgraph on C, up to the common
\* normalisation factor and times PathDenominator: for every node v the sum,
\* over the pairs s, t of other nodes, of the share of the shortest paths from
\* s to t that pass through v
betweenness_centrality(g, C) ==
    LET dist == Built([s \in C |-> Built(Distances(g, C, s))])
        sigma == Built([s \in C |-> PathCounts(g, C, {s}, [x \in {s} |-> 1])])
        through(v, p) ==
            LET s == p[1]
                t == p[2]
            IN IF t \in DOMAIN dist[s] /\ v \in DOMAIN dist[s] /\ t \in DOMAIN dist[v]
                  /\ dist[s][v] + dist[v][t] = dist[s][t]
               THEN (PathDenominator * sigma[s][v] * sigma[v][t]) \div sigma[s][t]
               ELSE 0
        pairs(v) == {p \in (C \ {v}) \X (C \ {v}) : p[1] < p[2]}
    IN Built([v \in C |->
                 LET share == [p \in pairs(v) |-> through(v, p)]
                 IN SumOver(share, pairs(v))])

\* DynamicGraph._find_best_bridge: the edges it can return ({} for None); the
\* sampled centrality of components above 100 nodes is outside the bounds
_find_best_bridge(g, component) ==
    LET sub == {e \in g.G_edges : e \subseteq component}
        b == betweenness_centrality(g, component)
        \* betweenness[u] + betweenness[v], twice the edge centrality
        edge_centrality(e) == SumOver(b, e)
    IN {e \in sub : \A f \in sub : edge_centrality(e) >= edge_centrality(f)}

RECURSIVE SplitLoop(_, _, _, _)
\* the loop of _split_components over sorted_comps[i..] with `needed` left
SplitLoop(g, sorted_comps, i, needed) ==
    IF i > Len(sorted_comps) \/ needed <= 0 THEN {g}
    ELSE IF Cardinality(sorted_comps[i]) < 2 * g.config.min_component_size
    THEN SplitLoop(g, sorted_comps, i + 1, needed)
    ELSE LET bridges == _find_best_bridge(g, sorted_comps[i])
         IN IF bridges = {} THEN SplitLoop(g, sorted_comps, i + 1, needed)
            ELSE UNION {LET u == MinOf(e)
                            v == MaxOf(e)
                        IN SplitLoop(_remove_edge(g, u, v)[1], sorted_comps, i + 1, needed - 1)
                        : e \in bridges}

\* DynamicGraph._split_components
_split_components(g, comps) ==
    SplitLoop(g, SortedByLenReverse(comps), 1, g.config.target_components - Len(comps))

RECURSIVE MinSizeLoop(_, _, _, _)
\* the loop of _enforce_min_component_size over small_comps[i..]
MinSizeLoop(S, small_comps, i, largest_comp) ==
    IF i > Len(small_comps) THEN S
    ELSE LET one(g) == IF small_comps[i] = largest_comp THEN {g}
                       ELSE CrossEdge(g, small_comps[i], largest_comp)
         IN MinSizeLoop(Then(S, one), small_comps, i + 1, largest_comp)

\* DynamicGraph._enforce_min_component_size
\* a faulty size repair: the last small component is left alone
SkipLastSmallComponent(g, comps) ==
    LET small_comps ==
            SelectSeq(comps, LAMBDA c : Cardinality(c) < g.config.min_component_size)
    IN IF small_comps = <<>> THEN {g}
       ELSE MinSizeLoop({g}, SubSeq(small_comps, 1, Len(small_comps) - 1), 1,
                        LargestComponent(comps))

_enforce_min_component_size(g, comps) ==
    LET small_comps ==
            SelectSeq(comps, LAMBDA c : Cardinality(c) < g.config.min_component_size)
    IN IF small_comps = <<>> THEN {g}
       ELSE MinSizeLoop({g}, small_comps, 1, LargestComponent(comps))

\* DynamicGraph.enforce_component_rules
enforce_component_rules(g) ==
    LET gc == _get_components(g)
        comps == gc.components
        num_components == Len(comps)
        final(h) == LET hc == _get_components(h)
                    IN _enforce_min_component_size(hc, hc.components)
    IN IF num_components = gc.config.target_components
       THEN _enforce_min_component_size(gc, comps)
       ELSE IF num_components > gc.config.target_components
       THEN Then(_merge_components(gc, comps), final)
       ELSE Then(_split_components(gc, comps), final)

-----------------------------------------------------------------------------
(* Attachment strategies *)

\* min(3, max(1, int(G.number_of_nodes() / per)))
NumEdges(g, per) == Min(3, Max(1, Cardinality(g.G_nodes) \div per))

\* BaseStrategy.pre_attach / AgingStrategy.pre_attach
pre_attach(g, new_node) ==
    IF g.config.strategy = "aging"
    THEN [g EXCEPT !.birth_step = Put(g.birth_step, new_node, g.strategy_time_step)]
    ELSE g

\* RandomStrategy.attach
RandomAttach(g, new_node) ==
    IF Cardinality(g.G_nodes) <= 1 THEN {g}
    ELSE LET candidates == {n \in g.G_nodes :
                               n # new_node /\ degree(g, n) < g.config.max_degree}
             num_edges == NumEdges(g, 15)
         IN IF candidates = {} THEN {g}
            ELSE {AddEdgesFrom(g, new_node, T) :
                     T \in KSubsets(candidates, Min(num_edges, Cardinality(candidates)))}

\* degree ** exponent times the bonus, doubled: 1.0 is 2 and 1.5 is 3
PreferentialWeight(g, new_comp, node) ==
    Pow(degree(g, node), g.config.preferential_exponent)
        * (IF node \in new_comp THEN 2 ELSE 3)

RECURSIVE PreferentialLoop(_, _, _, _, _, _)
\* the selection loop of PreferentialStrategy.attach: w is the weight table,
\* zeroed the candidates whose probability was set to 0
PreferentialLoop(g, new_node, w, zeroed, selected, todo) ==
    IF todo = 0 \/ selected >= NumEdges(g, 10) THEN {g}
    ELSE LET support == {c \in DOMAIN w : c \notin zeroed /\ w[c] > 0}
         IN IF support = {}
            \* random.choices: Total of weights must be greater than zero
            THEN {[g EXCEPT !.raised = "ValueError"]}
            ELSE UNION {LET r == _add_edge(g, new_node, target)
                        IN IF r[2]
                           THEN PreferentialLoop(r[1], new_node, w, zeroed \cup {target},
                                                 selected + 1, todo - 1)
                           ELSE PreferentialLoop(g, new_node, w, zeroed, selected, todo - 1)
                        : target \in support}

\* the candidates list of PreferentialStrategy.attach: node |-> weight
PreferentialCandidates(g, new_node) ==
    LET \* next(nx.connected_components(G)): the component of the first node
        new_comp == node_connected_component(g, MinOf(g.G_nodes))
        candidates == {n \in g.G_nodes :
                          n # new_node /\ degree(g, n) < g.config.max_degree}
    IN [c \in candidates |-> PreferentialWeight(g, new_comp, c)]

\* PreferentialStrategy.attach
PreferentialAttach(g, new_node) ==
    IF Cardinality(g.G_nodes) < 2 THEN {g}
    ELSE LET
             w == PreferentialCandidates(g, new_node)
             candidates == DOMAIN w
             total_weight == SumOver(w, candidates)
         IN IF candidates = {} THEN {g}
            ELSE IF total_weight = 0
            \* w / total_weight
            THEN {[g EXCEPT !.raised = "ZeroDivisionError"]}
            ELSE PreferentialLoop(g, new_node, w, {}, 0, 2 * NumEdges(g, 10))

RECURSIVE AgingLoop(_, _, _, _)
\* the selection loop of AgingStrategy.attach; every weight stays positive
AgingLoop(g, new_node, selected, todo) ==
    IF todo = 0 \/ Cardinality(selected) >= NumEdges(g, 10) THEN {g}
    ELSE UNION {LET r == _add_edge(g, new_node, target)
                IN IF r[2]
                   THEN AgingLoop(r[1], new_node, selected \cup {target}, todo - 1)
                   ELSE AgingLoop(g, new_node, selected, todo - 1)
                : target \in g.G_nodes \ {new_node}}

\* AgingStrategy.attach
AgingAttach(g, new_node) ==
    IF Cardinality(g.G_nodes) <= 1 THEN {g}
    ELSE AgingLoop(g, new_node, {}, 3 * NumEdges(g, 10))

\* strategy.attach
attach(g, new_node) ==
    CASE g.config.strategy = "random" -> RandomAttach(g, new_node)
      [] g.config.strategy = "preferential" -> PreferentialAttach(g, new_node)
      [] g.config.strategy = "aging" -> AgingAttach(g, new_node)

\* the open triangles around the edge (u, v): the pairs (v, n) for n next to u
TriadFirst(g, u, v) ==
    {<<v, n>> : n \in {m \in neighbors(g, u) : m # v /\ ~has_edge(g, v, m)}}

\* potential_targets of add_triadic_edges, as a set
PotentialTargets(g, u, v) == TriadFirst(g, u, v) \cup TriadFirst(g, v, u)

RECURSIVE AddPairs(_, _)
\* _add_edge(source, target) for every pair
AddPairs(g, pairs) ==
    IF pairs = {} THEN g
    ELSE LET p == CHOOSE x \in pairs : TRUE
         IN AddPairs(_add_edge(g, p[1], p[2])[1], pairs \ {p})

\* a faulty sample: every potential target is realised
SampleAllTriads(g, u, v) == {AddPairs(g, PotentialTargets(g, u, v))}

\* random.sample(potential_targets, min(2, len(potential_targets)))
SampleTriads(g, u, v) ==
    LET pt == PotentialTargets(g, u, v)
    IN {AddPairs(g, T) : T \in KSubsets(pt, Min(2, Cardinality(pt)))}

\* RandomStrategy.add_triadic_edges; PreferentialStrategy.add_triadic_edges is
\* the same, an edge never joining two components (cross_edges stays empty)
RandomTriadic(g) ==
    IF g.G_edges = {} THEN {g}
    ELSE UNION {SampleTriads(g, MinOf(e), MaxOf(e)) : e \in g.G_edges}

\* the reduced fraction of a per-mille factor
GCD(a, b) == MaxOf({d \in 1..Max(a, 1) : a % d = 0 /\ b % d = 0})
FactorNum(f) == f \div GCD(f, PerMille)
FactorDen(f) == PerMille \div GCD(f, PerMille)

\* AgingStrategy.add_triadic_edges
AgingTriadic(g) ==
    IF g.G_edges = {} THEN {g}
    ELSE
    LET \* G.nodes[n].get('birth_step', self.time_step)
        born == [n \in g.G_nodes |->
                    IF n \in DOMAIN g.birth_step THEN g.birth_step[n]
                    ELSE g.strategy_time_step]
        \* G.nodes[n].get('activity', 0.5)
        active == [n \in g.G_nodes |->
                      IF n \in DOMAIN g.activity THEN g.activity[n] ELSE One \div 2]
        age(e) == g.strategy_time_step - MinOf({born[n] : n \in e})
        oldest == MaxOf({age(e) : e \in g.G_edges})
        f == g.config.decay_factor
        \* decay_factor ** age * (activity_u + activity_v) / 2, over a common
        \* denominator
        score(e) == Pow(FactorNum(f), age(e)) * Pow(FactorDen(f), oldest - age(e))
                        * SumOver(active, e)
        best == {e \in g.G_edges : \A o \in g.G_edges : score(e) >= score(o)}
        \* potential_targets[:2]: the pairs around u come first
        firstTwo(u, v) ==
            LET a == TriadFirst(g, u, v)
                b == TriadFirst(g, v, u)
            IN IF Cardinality(a) >= 2 THEN KSubsets(a, 2)
               ELSE {a \cup T : T \in KSubsets(b, Min(2 - Cardinality(a), Cardinality(b)))}
    IN UNION {{AddPairs(g, T) : T \in firstTwo(MinOf(e), MaxOf(e))} : e \in best}

\* strategy.add_triadic_edges
add_triadic_edges(g) ==
    IF g.config.strategy = "aging" THEN AgingTriadic(g) ELSE RandomTriadic(g)

\* BaseStrategy.post_update
post_update(g) == [g EXCEPT !.strategy_time_step = @ + 1]

-----------------------------------------------------------------------------
(* Node lifecycle and update *)

\* DynamicGraph._add_node: a raising attach leaves before the cache is marked
\* dirty and before the counter advances
_add_node(g) ==
    LET new_node == g.node_counter
        g1 == [g EXCEPT !.G_nodes = @ \cup {new_node}]
        g2 == pre_attach(_init_node(g1, new_node), new_node)
        done(h) == {[h EXCEPT !.components_dirty = TRUE, !.node_counter = @ + 1]}
    IN Then(attach(g2, new_node), done)

\* DynamicGraph._remove_inactive_node
_remove_inactive_node(g) ==
    LET r == get_least_active_node(g)
        node == r[2]
    IN IF node # None
       THEN [remove_node(r[1], node) EXCEPT
                !.components_dirty = TRUE,
                !.node_activity = [n \in DOMAIN @ \ {node} |-> @[n]]]
       ELSE r[1]

\* DynamicGraph._remove_aged_edges
_remove_aged_edges(g) ==
    LET edges_to_remove == {e \in g.G_edges : g.weight[e] < g.config.min_edge_weight}
    IN IF edges_to_remove # {}
       THEN [remove_edges_from(g, edges_to_remove) EXCEPT !.components_dirty = TRUE]
       ELSE g

\* the removal stage of the last update: whether the draw succeeded, the
\* nodes that left, and the activities just before
NoRemoval == [drawn |-> FALSE, removed |-> {}, activity |-> <<>>]

RemovalStage(g) ==
    LET r == _remove_inactive_node(g)
    IN [r EXCEPT !.removal = [drawn |-> TRUE,
                              removed |-> g.G_nodes \ r.G_nodes,
                              activity |-> g.activity]]

\* DynamicGraph.update: every graph one call can leave, for the outcomes of
\* its four draws (node_add_prob, node_remove_prob, triadic_prob,
\* edge_remove_prob)
update(g, add, remove, triadic, edge_remove) ==
    LET start == [g EXCEPT !.time_step = @ + 1, !.removal = NoRemoval]
        addStage(h) == IF add THEN _add_node(h) ELSE {h}
        removeStage(h) == IF Cardinality(h.G_nodes) > 3 /\ remove
                          THEN {RemovalStage(h)} ELSE {h}
        agedStage(h) == IF edge_remove THEN {_remove_aged_edges(h)} ELSE {h}
        edgeStage(h) == IF h.G_edges # {}
                        THEN Then(IF triadic THEN add_triadic_edges(h) ELSE {h}, agedStage)
                        ELSE {h}
        postStage(h) == {post_update(h)}
    IN Then(Then(Then(Then(Then(Then({update_activity(start)},
            addStage), removeStage), edgeStage),
            enforce_degree_limits), enforce_component_rules), postStage)

-----------------------------------------------------------------------------
(* Construction of the graph *)

\* DynamicGraph.__init__ before _initialize_graph
EmptyGraph(cfg) ==
    [config |-> cfg, G_nodes |-> {}, G_edges |-> {}, activity |-> <<>>,
     birth_step |-> <<>>, weight |-> <<>>, time_step |-> 0, node_counter |-> 0,
     components_dirty |-> TRUE, components |-> <<>>, components_none |-> TRUE,
     activity_heap |-> <<>>, node_activity |-> <<>>, strategy_time_step |-> 0,
     raised |-> "none", removal |-> NoRemoval]

Pairs(ids) == {e \in SUBSET ids : Cardinality(e) = 2}

\* nx.connected_watts_strogatz_graph(n, k, p) on the given ids: the complete
\* graph when k = n; otherwise the ring of n * (k // 2) edges rewired edge by
\* edge, which keeps the number of edges, and retried until connected
connected_watts_strogatz_graph(ids, k) ==
    IF Cardinality(ids) = k THEN {Pairs(ids)}
    ELSE {E \in SUBSET Pairs(ids) :
            /\ Cardinality(E) = Cardinality(ids) * (k \div 2)
            /\ Reach([G_nodes |-> ids, G_edges |-> E], {MinOf(ids)}) = ids}

RECURSIVE InitNodes(_, _)
\* _init_node and pre_attach for every node, in node order
InitNodes(g, todo) ==
    IF todo = {} THEN g
    ELSE LET n == MinOf(todo)
         IN InitNodes(pre_attach(_init_node(g, n), n), todo \ {n})

\* the graph with the nodes ids and the edges E of weight 1.0 added
WithSubgraph(g, ids, E) ==
    [g EXCEPT !.G_nodes = @ \cup ids,
              !.G_edges = @ \cup E,
              !.weight = [e \in g.G_edges \cup E |->
                             IF e \in E THEN One ELSE g.weight[e]]]

\* DynamicGraph._create_single_component_graph
_create_single_component_graph(g, num_nodes) ==
    {InitNodes(WithSubgraph(g, 0..(num_nodes - 1), E), 0..(num_nodes - 1)) :
        E \in connected_watts_strogatz_graph(0..(num_nodes - 1), 4)}

\* DynamicGraph._balanced_component_sizes
_balanced_component_sizes(cfg, total_nodes) ==
    LET target == cfg.target_components
        min_size == cfg.min_component_size
        base_size == Max(min_size, total_nodes \div target)
        remainder == total_nodes % target
        sizes == [i \in 1..target |-> IF i <= remainder THEN base_size + 1 ELSE base_size]
    IN SelectSeq(sizes, LAMBDA x : x >= min_size)

RECURSIVE CreateComponents(_, _, _)
\* the loop of _create_multicomponent_graph over component_sizes[i..]
CreateComponents(g, sizes, i) ==
    IF i > Len(sizes) THEN {g}
    ELSE LET ids == g.node_counter..(g.node_counter + sizes[i] - 1)
         IN UNION {CreateComponents(
                       [InitNodes(WithSubgraph(g, ids, E), ids)
                           EXCEPT !.node_counter = @ + sizes[i]],
                       sizes, i + 1)
                   : E \in connected_watts_strogatz_graph(ids, 3)}

\* DynamicGraph._create_multicomponent_graph
_create_multicomponent_graph(g, num_nodes) ==
    CreateComponents(g, _balanced_component_sizes(g.config, num_nodes), 1)

\* DynamicGraph._initialize_graph
_initialize_graph(g) ==
    LET num_nodes == g.config.initial_nodes
        made == IF g.config.target_components > 1
                THEN _create_multicomponent_graph(g, num_nodes)
                ELSE _create_single_component_graph(g, num_nodes)
    IN {[h EXCEPT !.node_counter = num_nodes] : h \in made}

\* DynamicGraph.__init__
NewGraph(cfg) ==
    IF cfg.initial_nodes > 0 THEN _initialize_graph(EmptyGraph(cfg))
    ELSE {EmptyGraph(cfg)}

-----------------------------------------------------------------------------
(* The walker *)

\* deque(maxlen=max_history).append
PathAppend(p, node, max_history) ==
    LET q == Append(p, node)
    IN IF Len(q) > max_history THEN SubSeq(q, Len(q) - max_history + 1, Len(q)) ELSE q

\* self.visit_count.get(node, 0)
Visits(w, node) == IF node \in DOMAIN w.visit_count THEN w.visit_count[node] ELSE 0

\* path.append(node); visit_count[node] = visit_count.get(node, 0) + 1
Record(w, node) ==
    [w EXCEPT !.path = PathAppend(w.path, node, w.walker.max_history),
              !.visit_count = Put(w.visit_count, node, Visits(w, node) + 1)]

\* bool(node) for a node id or None: 0 and None are false
Truthy(node) == node # None /\ node # 0

\* BiasedRandomWalker._init_start_node: every walker it can leave
_init_start_node(g, w, start_node) ==
    LET maxdeg == MaxOf({degree(g, n) : n \in g.G_nodes})
        choices == IF start_node # None /\ start_node \in g.G_nodes THEN {start_node}
                   ELSE IF g.G_nodes # {}
                   THEN {n \in g.G_nodes : degree(g, n) = maxdeg}
                   ELSE {None}
    IN {IF node # None THEN [Record(w, node) EXCEPT !.current_node = node]
        ELSE [w EXCEPT !.current_node = None] : node \in choices}

\* BiasedRandomWalker.__init__
NewWalker(g, wcfg, start_node) ==
    _init_start_node(g,
        [walker |-> wcfg, current_node |-> None, path |-> <<>>, visit_count |-> <<>>,
         teleport_probability |-> wcfg.teleport_probability, raised |-> "none",
         branch |-> "init"],
        start_node)

\* a faulty reset: the visit counts are not cleared
ResetKeepingCounts(g, w, start_node) ==
    {[o EXCEPT !.branch = "reset"] :
        o \in _init_start_node(g, [w EXCEPT !.path = <<>>], start_node)}

\* BiasedRandomWalker.reset
reset(g, w, start_node) ==
    {[o EXCEPT !.branch = "reset"] :
        o \in _init_start_node(g, [w EXCEPT !.path = <<>>, !.visit_count = <<>>],
                               start_node)}

\* nx.single_source_shortest_path_length(G, source, cutoff): the nodes reached
RECURSIVE WithinDistance(_, _, _)
WithinDistance(g, R, cutoff) ==
    IF cutoff <= 0 THEN R
    ELSE WithinDistance(g, R \cup UNION {neighbors(g, n) : n \in R}, cutoff - 1)

\* a faulty _get_teleport_candidates: the distant strategy forgets to leave out
\* the walker's own component
AllNodesAsDistantCandidates(g, w) ==
    IF g.G_nodes = {} THEN {}
    ELSE IF w.current_node \notin g.G_nodes THEN g.G_nodes
    ELSE IF w.walker.teleport_strategy = "component"
    THEN node_connected_component(g, w.current_node)
    ELSE IF w.walker.teleport_strategy = "distant" THEN g.G_nodes
    ELSE IF w.walker.max_teleport_distance <= 0 THEN g.G_nodes
    ELSE WithinDistance(g, {w.current_node}, w.walker.max_teleport_distance)

\* BiasedRandomWalker._get_teleport_candidates
_get_teleport_candidates(g, w) ==
    IF g.G_nodes = {} THEN {}
    ELSE IF w.current_node \notin g.G_nodes THEN g.G_nodes
    ELSE IF w.walker.teleport_strategy = "component"
    THEN node_connected_component(g, w.current_node)
    ELSE IF w.walker.teleport_strategy = "distant"
    THEN g.G_nodes \ node_connected_component(g, w.current_node)
    ELSE IF w.walker.max_teleport_distance <= 0 THEN g.G_nodes
    ELSE WithinDistance(g, {w.current_node}, w.walker.max_teleport_distance)

RECURSIVE Decayed(_, _, _)
\* x * factor ** count
Decayed(x, factor, count) ==
    IF count <= 0 THEN x ELSE Decayed(Scaled(x, factor), factor, count - 1)

\* BiasedRandomWalker._get_node_weight
_get_node_weight(g, w, node) ==
    LET incident == {e \in g.G_edges : node \in e}
        base == CASE w.walker.bias_type = "weight" ->
                       IF incident # {}
                       THEN SumOver(g.weight, incident) \div Cardinality(incident)
                       ELSE One
                  [] w.walker.bias_type = "degree" -> degree(g, node) * One
                  [] w.walker.bias_type = "activity" ->
                       IF node \in DOMAIN g.activity THEN g.activity[node] ELSE One
                  [] OTHER -> One
        biased == IF w.walker.adaptive_bias
                  THEN Decayed(base, w.walker.decay_factor, Visits(w, node))
                  ELSE base
    IN Max(w.walker.min_weight, biased)

\* random.choices(candidates, weights) when the total is positive, else
\* random.choice(candidates): the nodes that can be drawn
Drawn(g, w, candidates) ==
    LET positive == {c \in candidates : _get_node_weight(g, w, c) > 0}
    IN IF positive # {} THEN positive ELSE candidates

\* random.random() < p, for a per-mille p
CanSucceed(p) == p > 0
CanFail(p) == p < Certain

\* a faulty stale-position branch: returns without choosing a new node
StaleBranchKeepsPosition(g, w) == {[w EXCEPT !.branch = "stale"]}

\* step(): the stale-position branch
StaleBranch(g, w) ==
    {LET moved == [w EXCEPT !.current_node = node, !.branch = "stale"]
     IN IF Truthy(node) THEN Record(moved, node) ELSE moved
     : node \in g.G_nodes}

\* a faulty teleport branch: the destination is drawn among all the nodes
TeleportAmongAllNodes(g, w) ==
    {[Record(w, next_node) EXCEPT !.current_node = next_node,
                                  !.branch = "teleport"]
     : next_node \in Drawn(g, w, g.G_nodes)}

\* step(): the teleport branch
TeleportBranch(g, w) ==
    LET candidates == _get_teleport_candidates(g, w)
    IN IF candidates = {} THEN {[w EXCEPT !.branch = "teleport"]}
       ELSE {[Record(w, next_node) EXCEPT !.current_node = next_node,
                                          !.branch = "teleport"]
             : next_node \in Drawn(g, w, candidates)}

\* step(): the stay branch; visit_count[current_node] += 1 needs the key
StayBranch(g, w) ==
    IF w.current_node \in DOMAIN w.visit_count
    THEN {[w EXCEPT !.visit_count[w.current_node] = @ + 1, !.branch = "stay"]}
    ELSE {[w EXCEPT !.raised = "KeyError", !.branch = "stay"]}

\* a faulty move to a neighbour: the node is recorded twice
WalkBranchRecordingTwice(g, w) ==
    {[Record(Record(w, next_node), next_node)
         EXCEPT !.current_node = next_node, !.branch = "walk"]
     : next_node \in Drawn(g, w, neighbors(g, w.current_node))}

\* step(): the weighted move to a neighbour (exploration_factor 1.0)
WalkBranch(g, w) ==
    {[Record(w, next_node) EXCEPT !.current_node = next_node, !.branch = "walk"]
     : next_node \in Drawn(g, w, neighbors(g, w.current_node))}

\* the value step() assigns to teleport_probability after a forced teleport
RestoredTeleportProbability(w) == ResetTeleportProbability

\* BiasedRandomWalker.step: every walker one call can leave
RECURSIVE step(_, _)
step(g, w) ==
    IF g.G_nodes = {} THEN {[w EXCEPT !.current_node = None, !.branch = "empty"]}
    ELSE IF w.current_node \notin g.G_nodes THEN StaleBranch(g, w)
    ELSE
    LET teleport == IF CanSucceed(w.teleport_probability)
                    THEN TeleportBranch(g, w) ELSE {}
        stay == IF CanSucceed(w.walker.stay_probability) THEN StayBranch(g, w) ELSE {}
        \* Force teleport if no neighbors available
        forced == {IF o.raised = "none"
                   THEN [o EXCEPT !.teleport_probability = RestoredTeleportProbability(w),
                                  !.branch = "forced"]
                   ELSE o
                   : o \in step(g, [w EXCEPT !.teleport_probability = Certain])}
        move == IF neighbors(g, w.current_node) = {} THEN forced ELSE WalkBranch(g, w)
        rest == IF CanFail(w.walker.stay_probability) THEN move ELSE {}
    IN teleport \cup (IF CanFail(w.teleport_probability) THEN stay \cup rest ELSE {})

\* the quotient a / b of two counts, as a fraction in lowest terms
Quotient(a, b) == <<a \div GCD(a, b), b \div GCD(a, b)>>

\* a faulty distribution: the counts are divided by the number of keys
DistributionOverKeys(w) ==
    LET total_visits == Cardinality(DOMAIN w.visit_count)
    IN IF total_visits = 0 THEN <<>>
       ELSE [node \in DOMAIN w.visit_count |->
                Quotient(w.visit_count[node], total_visits)]

\* BiasedRandomWalker.get_visit_distribution
get_visit_distribution(w) ==
    LET total_visits == SumOver(w.visit_count, DOMAIN w.visit_count)
    IN IF total_visits = 0 THEN <<>>
       ELSE [node \in DOMAIN w.visit_count |->
                Quotient(w.visit_count[node], total_visits)]

-----------------------------------------------------------------------------
(* State, construction and calls *)

\* the DynamicGraph object as one value
Graph ==
    [config |-> config, G_nodes |-> G_nodes, G_edges |-> G_edges,
     activity |-> activity, birth_step |-> birth_step, weight |-> weight,
     time_step |-> time_step, node_counter |-> node_counter,
     components_dirty |-> components_dirty, components |-> components,
     components_none |-> components_none, activity_heap |-> activity_heap,
     node_activity |-> node_activity, strategy_time_step |-> strategy_time_step,
     raised |-> "none", removal |-> NoRemoval]

\* the BiasedRandomWalker object as one value
Walker ==
    [walker |-> walker, current_node |-> current_node, path |-> path,
     visit_count |-> visit_count, teleport_probability |-> teleport_probability,
     raised |-> "none", branch |-> last]

GraphIs(g) ==
    /\ config = g.config
    /\ G_nodes = g.G_nodes
    /\ G_edges = g.G_edges
    /\ activity = g.activity
    /\ birth_step = g.birth_step
    /\ weight = g.weight
    /\ time_step = g.time_step
    /\ node_counter = g.node_counter
    /\ components_dirty = g.components_dirty
    /\ components = g.components
    /\ components_none = g.components_none
    /\ activity_heap = g.activity_heap
    /\ node_activity = g.node_activity
    /\ strategy_time_step = g.strategy_time_step

GraphBecomes(g) ==
    /\ config' = g.config
    /\ strategy_name' = strategy_name
    /\ G_nodes' = g.G_nodes
    /\ G_edges' = g.G_edges
    /\ activity' = g.activity
    /\ birth_step' = g.birth_step
    /\ weight' = g.weight
    /\ time_step' = g.time_step
    /\ node_counter' = g.node_counter
    /\ components_dirty' = g.components_dirty
    /\ components' = g.components
    /\ components_none' = g.components_none
    /\ activity_heap' = g.activity_heap
    /\ node_activity' = g.node_activity
    /\ strategy_time_step' = g.strategy_time_step
    /\ raised' = g.raised
    /\ removal' = g.removal

WalkerIs(w) ==
    /\ walker = w.walker
    /\ current_node = w.current_node
    /\ path = w.path
    /\ visit_count = w.visit_count
    /\ teleport_probability = w.teleport_probability

WalkerBecomes(w) ==
    /\ walker' = w.walker
    /\ current_node' = w.current_node
    /\ path' = w.path
    /\ visit_count' = w.visit_count
    /\ teleport_probability' = w.teleport_probability
    /\ raised' = w.raised
    /\ last' = w.branch

\* no primitive was called
NoCall == [u |-> None, v |-> None, returned |-> FALSE]

\* the letters, for str.lower()
UpperCase == <<"A", "B", "C", "D", "E", "F", "G", "H", "I", "J", "K", "L", "M",
               "N", "O", "P", "Q", "R", "S", "T", "U", "V", "W", "X", "Y", "Z">>
LowerCase == <<"a", "b", "c", "d", "e", "f", "g", "h", "i", "j", "k", "l", "m",
               "n", "o", "p", "q", "r", "s", "t", "u", "v", "w", "x", "y", "z">>

\* str.lower() of a sequence of characters
lower(name) ==
    [i \in DOMAIN name |->
        IF \E k \in DOMAIN UpperCase : UpperCase[k] = name[i]
        THEN LowerCase[CHOOSE k \in DOMAIN UpperCase : UpperCase[k] = name[i]]
        ELSE name[i]]

\* StrategyFactory.STRATEGIES: the registered names and their variants
STRATEGIES ==
    (<<"r", "a", "n", "d", "o", "m">> :> "random")
        @@ (<<"p", "r", "e", "f", "e", "r", "e", "n", "t", "i", "a", "l">>
                :> "preferential")
        @@ (<<"a", "g", "i", "n", "g">> :> "aging")

\* a faulty factory: an unknown name yields the random variant
CreateWithDefault(name) ==
    LET key == lower(name)
    IN IF key \in DOMAIN STRATEGIES THEN STRATEGIES[key] ELSE "random"

\* StrategyFactory.create: the variant created, or the exception raised
create(name) ==
    LET key == lower(name)
    IN IF key \in DOMAIN STRATEGIES THEN STRATEGIES[key] ELSE "ValueError"

\* the registered name of a variant
NameOf(variant) == CHOOSE key \in DOMAIN STRATEGIES : STRATEGIES[key] = variant

\* DynamicGraph(strategy=name, **cfg) followed, when it succeeded, by
\* BiasedRandomWalker(graph, **wcfg); a failed construction leaves no graph
\* and no walker
ConstructNamed(names, cfgs, wcfgs) ==
    \E name \in names, cfg \in cfgs, wcfg \in wcfgs :
        LET variant == create(name)
            unbuilt == [walker |-> wcfg, current_node |-> None, path |-> <<>>,
                        visit_count |-> <<>>,
                        teleport_probability |-> wcfg.teleport_probability]
        IN /\ strategy_name = name
           /\ last = "init"
           /\ removal = NoRemoval
           /\ prev_node = None
           /\ updates = 0
           /\ steps = 0
           /\ call = NoCall
           /\ IF variant = "ValueError"
              THEN /\ GraphIs(EmptyGraph([cfg EXCEPT !.strategy = "unset"]))
                   /\ WalkerIs(unbuilt)
                   /\ raised = "ValueError"
              ELSE \E g \in NewGraph([cfg EXCEPT !.strategy = variant]) :
                      \E w \in NewWalker(g, wcfg, wcfg.start_node) :
                          /\ GraphIs(g)
                          /\ WalkerIs(w)
                          /\ raised = "none"

\* DynamicGraph(**cfg) on no initial nodes, then G.add_node(i) and
\* _init_node(i) for n ids: a graph of n nodes and no edge
EdgelessGraph(cfg, n) ==
    [InitNodes(WithSubgraph(EmptyGraph(cfg), 0..(n - 1), {}), 0..(n - 1))
        EXCEPT !.node_counter = n]

\* the edgeless graph of n nodes, and a walker on it
ConstructEdgeless(cfgs, sizes, wcfgs) ==
    \E cfg \in cfgs, n \in sizes, wcfg \in wcfgs :
        \E w \in NewWalker(EdgelessGraph(cfg, n), wcfg, wcfg.start_node) :
            /\ GraphIs(EdgelessGraph(cfg, n))
            /\ WalkerIs(w)
            /\ strategy_name = NameOf(cfg.strategy)
            /\ raised = "none"
            /\ last = "init"
            /\ removal = NoRemoval
            /\ prev_node = None
            /\ updates = 0
            /\ steps = 0
            /\ call = NoCall

\* DynamicGraph(**cfg) followed by BiasedRandomWalker(graph, **wcfg)
Construct(cfgs, wcfgs) ==
    \E cfg \in cfgs, wcfg \in wcfgs :
        \E g \in NewGraph(cfg) :
            \E w \in NewWalker(g, wcfg, wcfg.start_node) :
                /\ GraphIs(g)
                /\ WalkerIs(w)
                /\ strategy_name = NameOf(cfg.strategy)
                /\ raised = "none"
                /\ last = "init"
                /\ removal = NoRemoval
                /\ prev_node = None
                /\ updates = 0
                /\ steps = 0
                /\ call = NoCall

\* graph.update(params)
Update ==
    /\ raised = "none"
    /\ updates < MaxUpdates
    /\ \E add, remove, triadic, edge_remove \in BOOLEAN :
          /\ add => node_counter <= MaxNodeId
          /\ \E g \in update(Graph, add, remove, triadic, edge_remove) :
                GraphBecomes(g)
    /\ last' = "update"
    /\ prev_node' = None
    /\ updates' = updates + 1
    /\ call' = NoCall
    /\ UNCHANGED <<walker_vars, steps>>

\* a faulty step: the walker asks the engine for its components, which fills
\* the engine's cache
StepFillingCache ==
    /\ raised = "none"
    /\ steps < MaxSteps
    /\ \E w \in step(Graph, Walker) : WalkerBecomes(w)
    /\ prev_node' = current_node
    /\ steps' = steps + 1
    /\ components' = connected_components(Graph)
    /\ components_none' = FALSE
    /\ components_dirty' = FALSE
    /\ UNCHANGED <<config, strategy_name, G_nodes, G_edges, activity, birth_step,
                   weight, time_step, node_counter, activity_heap, node_activity,
                   strategy_time_step, removal, updates, call>>

\* walker.step()
Step ==
    /\ raised = "none"
    /\ steps < MaxSteps
    /\ \E w \in step(Graph, Walker) : WalkerBecomes(w)
    /\ prev_node' = current_node
    /\ steps' = steps + 1
    /\ UNCHANGED <<graph_vars, removal, updates, call>>

\* walker.reset(start_node), for no start node and for ids in and out of the
\* graph; the argument is kept as the u of the call
Reset ==
    /\ raised = "none"
    /\ steps < MaxSteps
    /\ \E start_node \in {None, 0, 1} :
          /\ \E w \in reset(Graph, Walker, start_node) : WalkerBecomes(w)
          /\ call' = [u |-> start_node, v |-> None, returned |-> FALSE]
    /\ prev_node' = current_node
    /\ steps' = steps + 1
    /\ UNCHANGED <<graph_vars, removal, updates>>

\* graph.enforce_degree_limits()
EnforceDegreeLimits ==
    /\ raised = "none"
    /\ updates < MaxUpdates
    /\ \E g \in enforce_degree_limits(Graph) : GraphBecomes(g)
    /\ last' = "enforce_degree_limits"
    /\ call' = NoCall
    /\ updates' = updates + 1
    /\ UNCHANGED <<walker_vars, prev_node, steps>>

\* graph.enforce_component_rules()
EnforceComponentRules ==
    /\ raised = "none"
    /\ updates < MaxUpdates
    /\ \E g \in enforce_component_rules(Graph) : GraphBecomes(g)
    /\ last' = "enforce_component_rules"
    /\ call' = NoCall
    /\ updates' = updates + 1
    /\ UNCHANGED <<walker_vars, prev_node, steps>>

\* graph._add_node(): the node is created and the strategy attaches it
AddNode ==
    /\ raised = "none"
    /\ updates < MaxUpdates
    /\ node_counter <= MaxNodeId
    /\ \E g \in _add_node(Graph) : GraphBecomes(g)
    /\ last' = "_add_node"
    /\ call' = NoCall
    /\ updates' = updates + 1
    /\ UNCHANGED <<walker_vars, prev_node, steps>>

\* graph.strategy.add_triadic_edges()
AddTriadicEdges ==
    /\ raised = "none"
    /\ updates < MaxUpdates
    /\ \E g \in add_triadic_edges(Graph) : GraphBecomes(g)
    /\ last' = "add_triadic_edges"
    /\ call' = NoCall
    /\ updates' = updates + 1
    /\ UNCHANGED <<walker_vars, prev_node, steps>>

\* graph._merge_components(graph._get_components())
MergeComponents ==
    /\ raised = "none"
    /\ updates < MaxUpdates
    /\ LET gc == _get_components(Graph)
       IN \E g \in _merge_components(gc, gc.components) : GraphBecomes(g)
    /\ last' = "_merge_components"
    /\ call' = NoCall
    /\ updates' = updates + 1
    /\ UNCHANGED <<walker_vars, prev_node, steps>>

\* graph._enforce_min_component_size(graph._get_components())
EnforceMinComponentSize ==
    /\ raised = "none"
    /\ updates < MaxUpdates
    /\ LET gc == _get_components(Graph)
       IN \E g \in _enforce_min_component_size(gc, gc.components) : GraphBecomes(g)
    /\ last' = "_enforce_min_component_size"
    /\ call' = NoCall
    /\ updates' = updates + 1
    /\ UNCHANGED <<walker_vars, prev_node, steps>>

\* graph._add_edge(u, v), for node ids in and out of the graph (the graph is
\* undirected: the arguments are taken in one order)
AddEdge ==
    /\ raised = "none"
    /\ updates < MaxUpdates
    /\ \E u \in 0..MaxNodeId : \E v \in u..MaxNodeId :
          LET r == _add_edge(Graph, u, v)
          IN /\ GraphBecomes(r[1])
             /\ call' = [u |-> u, v |-> v, returned |-> r[2]]
    /\ last' = "_add_edge"
    /\ updates' = updates + 1
    /\ UNCHANGED <<walker_vars, prev_node, steps>>

\* graph._remove_edge(u, v)
RemoveEdge ==
    /\ raised = "none"
    /\ updates < MaxUpdates
    /\ \E u \in 0..MaxNodeId : \E v \in u..MaxNodeId :
          LET r == _remove_edge(Graph, u, v)
          IN /\ GraphBecomes(r[1])
             /\ call' = [u |-> u, v |-> v, returned |-> r[2]]
    /\ last' = "_remove_edge"
    /\ updates' = updates + 1
    /\ UNCHANGED <<walker_vars, prev_node, steps>>

-----------------------------------------------------------------------------
(* Configurations *)

DefaultConfig ==
    [strategy |-> "preferential", initial_nodes |-> 0,
     node_aging_factor |-> 500, edge_aging_factor |-> 250,
     min_degree |-> 2, max_degree |-> 15,
     target_components |-> 1, min_component_size |-> 3,
     min_edge_weight |-> ActivityFloor, preferential_exponent |-> 1,
     decay_factor |-> 500]

DefaultWalker ==
    [bias_type |-> "weight", max_history |-> 2, start_node |-> None,
     stay_probability |-> 0, teleport_probability |-> 100,
     decay_factor |-> 500, adaptive_bias |-> TRUE, min_weight |-> ActivityFloor,
     max_teleport_distance |-> 0, teleport_strategy |-> "uniform"]

Strategies == {"random", "preferential", "aging"}

\* the engine alone, under every strategy, with and without node aging (a
\* factor of 0.25 brings an activity to the floor at the second update)
GraphConfigs ==
    {[DefaultConfig EXCEPT !.strategy = s, !.initial_nodes = n,
                           !.node_aging_factor = f]
        : s \in Strategies, n \in {0, 4, 5}, f \in {250, 1000}}

InitGraph == Construct(GraphConfigs, {[DefaultWalker EXCEPT !.start_node = 0]})
NextGraph == Update
SpecGraph == InitGraph /\ [][NextGraph]_vars

\* the engine and the walker together.  Three engines: one that keeps two
\* components of any size (isolated nodes stay isolated), one that grows a
\* connected graph from nothing, and the default one started on four nodes
\* without aging (so that the activity index removes nodes)
SplitConfig ==
    [DefaultConfig EXCEPT !.strategy = "random", !.min_degree = 0,
                          !.target_components = 2, !.min_component_size = 1]
GrowConfig ==
    [DefaultConfig EXCEPT !.strategy = "random", !.min_degree = 0,
                          !.min_component_size = 1]
FourConfig ==
    [DefaultConfig EXCEPT !.strategy = "random", !.initial_nodes = 4,
                          !.node_aging_factor = 1000, !.edge_aging_factor = 1000]

\* walkers: teleport never / always, stay never / half the time, every
\* teleport strategy, with and without a distance limit
WalkerConfigs ==
    {[DefaultWalker EXCEPT !.teleport_probability = tp, !.stay_probability = sp,
                           !.teleport_strategy = ts, !.max_teleport_distance = d]
        : tp \in {0, 1000}, sp \in {0, 500},
          ts \in {"uniform", "component", "distant"}, d \in {0, 1}}

Init == \/ Construct({SplitConfig, GrowConfig}, WalkerConfigs)
        \/ Construct({FourConfig},
                     {[DefaultWalker EXCEPT !.stay_probability = 500, !.start_node = 0]})
Next == Update \/ Step
Spec == Init /\ [][Next]_vars

\* the engine and the walker, with the walker reset at any point: on a graph
\* grown from nothing and on the four-node graph, under walkers that
\* teleport never or always
InitWalker ==
    \/ Construct({GrowConfig},
                 {[DefaultWalker EXCEPT !.teleport_probability = tp,
                                        !.stay_probability = 500]
                     : tp \in {0, 1000}})
    \/ Construct({FourConfig},
                 {[DefaultWalker EXCEPT !.stay_probability = 500, !.start_node = 0]})
NextWalker == Update \/ Step \/ Reset
SpecWalker == InitWalker /\ [][NextWalker]_vars

\* the engine with its repair methods and edge primitives called directly.
\* Engines whose initial graph (complete on four and on five nodes) exceeds
\* a small max_degree, and one built in two components from fewer initial
\* nodes than the components need
TightConfig ==
    [DefaultConfig EXCEPT !.initial_nodes = 4, !.min_degree = 2, !.max_degree = 2]
PairConfig ==
    [DefaultConfig EXCEPT !.strategy = "random", !.initial_nodes = 4,
                          !.target_components = 2]
CappedConfig ==
    [DefaultConfig EXCEPT !.strategy = "random", !.initial_nodes = 5,
                          !.min_degree = 3, !.max_degree = 3]
EngineConfigs ==
    {[TightConfig EXCEPT !.strategy = s] : s \in Strategies}
        \cup {CappedConfig, PairConfig}

InitEngine == Construct(EngineConfigs, {[DefaultWalker EXCEPT !.start_node = 0]})
\* update is called on the fresh engine, the other methods at any point
NextEngine ==
    \/ updates = 0 /\ Update
    \/ EnforceDegreeLimits
    \/ EnforceComponentRules
    \/ AddNode
    \/ AddTriadicEdges
    \/ AddEdge
    \/ RemoveEdge
SpecEngine == InitEngine /\ [][NextEngine]_vars

\* the construction under strategy names of either case, known and unknown
StrategyNames ==
    {<<"r", "a", "n", "d", "o", "m">>,
     <<"R", "a", "n", "d", "o", "m">>,
     <<"A", "G", "I", "N", "G">>,
     <<"P", "r", "e", "f", "e", "r", "e", "n", "t", "i", "a", "l">>,
     <<"l", "i", "n", "e", "a", "r">>,
     <<"r", "a", "n", "d">>,
     <<>>}
BuildConfigs == {[DefaultConfig EXCEPT !.initial_nodes = n] : n \in {0, 4}}

InitBuild ==
    ConstructNamed(StrategyNames, BuildConfigs, {[DefaultWalker EXCEPT !.start_node = 0]})
NextBuild == Update
SpecBuild == InitBuild /\ [][NextBuild]_vars

\* the degree and component repairs called on edgeless graphs of two to
\* five nodes, with a min_degree below the node count and not, a max_degree
\* that the repair can and cannot reach, and one or two target components
SparseConfigs ==
    {[DefaultConfig EXCEPT !.strategy = "random", !.min_degree = lo,
                           !.max_degree = hi, !.target_components = t]
        : lo \in 1..3, hi \in {2, 4, 15}, t \in 1..2}

InitSparse ==
    ConstructEdgeless(SparseConfigs, 2..5, {[DefaultWalker EXCEPT !.start_node = 0]})
NextSparse ==
    \/ EnforceDegreeLimits
    \/ EnforceComponentRules
    \/ MergeComponents
    \/ EnforceMinComponentSize
SpecSparse == InitSparse /\ [][NextSparse]_vars

\* the walker teleporting on graphs that the repairs have built out of four
\* and five isolated nodes: trees and paths in one and in two components.
\* The walker always teleports, under each strategy and, for the
\* distance-limited one, within one and two hops
TeleportConfigs ==
    {[DefaultConfig EXCEPT !.strategy = "random", !.min_degree = 1,
                           !.max_degree = 4, !.target_components = t]
        : t \in 1..2}
TeleportWalkers ==
    {[DefaultWalker EXCEPT !.teleport_probability = 1000, !.start_node = 0,
                           !.teleport_strategy = ts, !.max_teleport_distance = d]
        : ts \in {"uniform", "component", "distant"}, d \in 0..2}

InitTeleport == ConstructEdgeless(TeleportConfigs, 4..5, TeleportWalkers)
NextTeleport == EnforceDegreeLimits \/ MergeComponents \/ Step
SpecTeleport == InitTeleport /\ [][NextTeleport]_vars

-----------------------------------------------------------------------------
(* Claims *)

\* the values of last after a call of step
StepBranches == {"empty", "stale", "teleport", "stay", "walk", "forced"}
\* the last call was update, and it returned
Updated == last = "update" /\ raised = "none"
\* the last call was step, and it returned
Stepped == last \in StepBranches /\ raised = "none"
\* this transition is a call of step
StepCall == steps' = steps + 1 /\ last' # "reset"

CountOf(vc, node) == IF node \in DOMAIN vc THEN vc[node] ELSE 0
TotalVisits(vc) == SumOver(vc, DOMAIN vc)

\* C1: when the removal stage of update runs (more than 3 nodes, the draw
\* succeeds), exactly one node leaves, and its activity was minimal among the
\* nodes present just before the removal.
C1_RemovesLeastActive ==
    (Updated /\ removal.drawn) =>
        \E n \in removal.removed :
            /\ removal.removed = {n}
            /\ \A m \in DOMAIN removal.activity :
                  removal.activity[n] <= removal.activity[m]

\* C2: after any sequence of updates every node of the graph has a heap entry
\* (a, node) with a equal to its activity in the side table and in the node
\* attribute.
C2_ActivityIndexLive ==
    raised = "none" =>
        \A n \in G_nodes :
            /\ n \in DOMAIN node_activity
            /\ node_activity[n] = activity[n]
            /\ \E i \in DOMAIN activity_heap : activity_heap[i] = <<activity[n], n>>

\* C3: update never raises, under any strategy and from any reachable graph.
C3_UpdateNeverRaises == last = "update" => raised = "none"

\* C4: step never raises, whatever the graph has become and whatever the
\* draws.
C4_StepNeverRaises == last \in StepBranches => raised = "none"

\* C5: a step called with the current node missing from a non-empty graph
\* leaves the walker on an existing node, appended to the history as its newest
\* entry and with its visit count one higher.
C5_StaleRecovery ==
    [][(StepCall /\ G_nodes # {} /\ current_node \notin G_nodes) =>
          /\ raised' = "none"
          /\ current_node' \in G_nodes
          /\ path' = PathAppend(path, current_node', walker.max_history)
          /\ CountOf(visit_count', current_node')
                = CountOf(visit_count, current_node') + 1]_vars

\* C6: every step on a non-empty graph increments the visit count of the node
\* the walker ends on, and with teleport_probability 1.0 it raises the sum of
\* all visit counts by exactly 1.
C6_StepCountsAVisit ==
    [][(StepCall /\ G_nodes # {}) =>
          /\ raised' = "none"
          /\ CountOf(visit_count', current_node')
                = CountOf(visit_count, current_node') + 1
          /\ teleport_probability = Certain =>
                TotalVisits(visit_count') = TotalVisits(visit_count) + 1]_vars

\* C7: after a step returns, teleport_probability is the value given at
\* construction.
C7_TeleportProbabilityKept ==
    Stepped => teleport_probability = walker.teleport_probability

\* C8: a walker on a node without neighbours, with teleport_probability 0 and
\* the stay transition not taken, in a graph of two or more nodes, is on
\* another node after the step.
C8_IsolatedWalkerMoves ==
    [][(/\ StepCall
        /\ current_node \in G_nodes
        /\ neighbors(Graph, current_node) = {}
        /\ teleport_probability = 0
        /\ Cardinality(G_nodes) >= 2
        /\ last' = "forced") => current_node' # current_node]_vars

C10_PositionValid ==
    Stepped =>
        /\ current_node = None <=> G_nodes = {}
        /\ G_nodes # {} => current_node \in G_nodes

\* C10 witness: a step that found the walker's node removed from a graph that
\* still has nodes, and relocated it
C10_Relocated ==
    /\ last = "stale"
    /\ prev_node # None
    /\ prev_node \notin G_nodes
    /\ current_node \in G_nodes

\* enforce_degree_limits was called directly and returned
DegreesEnforced == last = "enforce_degree_limits" /\ raised = "none"

\* C11: after enforce_degree_limits returns (min_degree <= max_degree), no
\* node has a degree above max_degree.
C11_DegreeCapped ==
    (DegreesEnforced /\ config.min_degree <= config.max_degree) =>
        \A n \in G_nodes : degree(Graph, n) <= config.max_degree

\* C11 witness: enforce_degree_limits called first thing on the initial
\* complete graph of four nodes (degree 3, max_degree 2) has removed edges
C11_Reduced ==
    /\ DegreesEnforced
    /\ updates = 1
    /\ config.initial_nodes = 4 /\ config.max_degree = 2
    /\ config.target_components = 1
    /\ Cardinality(G_edges) <= 4

\* C12: after enforce_degree_limits returns, a node still below min_degree
\* has no eligible partner: no other node that is not its neighbour and has
\* a degree below max_degree.
C12_RepairExhaustive ==
    DegreesEnforced =>
        \A n \in G_nodes :
            degree(Graph, n) < config.min_degree =>
                ~ \E m \in G_nodes \ {n} :
                      /\ m \notin neighbors(Graph, n)
                      /\ degree(Graph, m) < config.max_degree

\* C13: under any sequence of updates and any strategy the graph is a simple
\* undirected graph: every edge joins two distinct nodes of the node set (so
\* a removed node takes its incident edges with it), and the edge attributes
\* belong to the edges present.
C13_WellFormed ==
    /\ \A e \in G_edges : Cardinality(e) = 2 /\ e \subseteq G_nodes
    /\ DOMAIN weight = G_edges
    /\ DOMAIN activity = G_nodes

\* C13 witness: the first update of a five-node engine removed a node, which
\* had edges, and edges remain
C13_NodeLeftWithItsEdges ==
    /\ Updated /\ updates = 1
    /\ config.initial_nodes = 5
    /\ removal.removed # {}
    /\ G_edges # {}

\* C14: node_counter never decreases, and the id given to a node created
\* by update (the counter before the creation) is not an id already in the
\* node set.
C14_IdsNeverReused ==
    [][/\ node_counter' >= node_counter
       /\ node_counter' > node_counter => node_counter \notin G_nodes]_vars

\* C15: each call of update advances time_step by exactly 1.
C15_TimeAdvancesByOne ==
    [][last' = "update" /\ updates' = updates + 1 => time_step' = time_step + 1]_vars

\* C16: in every state reached through the engine's operations, a cache that
\* is computed and not marked dirty holds the true partition of the graph
\* into connected components.
C16_CacheCoherent ==
    (~components_dirty /\ ~components_none) =>
        Range(components) = Range(connected_components(Graph))

\* C17: _add_edge(u, v) returns False without raising and leaves the node
\* and edge sets as they were when u = v, the edge exists, or u or v is not
\* in the node set; otherwise it returns True and adds exactly that edge.
C17_AddEdgeRejects ==
    [][last' = "_add_edge" /\ updates' = updates + 1 =>
          LET u == call'.u
              v == call'.v
              refused == \/ u = v
                         \/ has_edge(Graph, u, v)
                         \/ u \notin G_nodes
                         \/ v \notin G_nodes
          IN /\ raised' = "none"
             /\ G_nodes' = G_nodes
             /\ call'.returned = ~refused
             /\ G_edges' = IF refused THEN G_edges ELSE G_edges \cup {Edge(u, v)}]_vars

\* two names that differ at most in the case of their letters
SameIgnoringCase(a, b) ==
    /\ Len(a) = Len(b)
    /\ \A i \in DOMAIN a :
          \/ a[i] = b[i]
          \/ \E k \in DOMAIN UpperCase : {a[i], b[i]} = {UpperCase[k], LowerCase[k]}

\* C18: a construction under a name that matches none of random,
\* preferential and aging (case ignored) fails at once and leaves no engine;
\* under a name that matches, it succeeds with the corresponding variant.
C18_UnknownStrategyFatal ==
    LET matches == {k \in DOMAIN STRATEGIES : SameIgnoringCase(strategy_name, k)}
    IN IF matches = {}
       THEN raised = "ValueError" /\ last = "init" /\ G_nodes = {}
       ELSE /\ \E k \in matches : config.strategy = STRATEGIES[k]
            /\ last = "init" => raised = "none"

\* C18 witness: the construction under the name linear was refused
C18_Refused ==
    /\ strategy_name = <<"l", "i", "n", "e", "a", "r">>
    /\ raised = "ValueError"
    /\ last = "init"

\* C19: after any number of updates every node has an activity between the
\* floor 0.1 and 1.0 and every edge a weight of at least 0; a node created
\* during an update has activity exactly 1.0 when that update returns.
C19_ActivityBounded ==
    /\ [](/\ \A n \in G_nodes :
               /\ n \in DOMAIN activity
               /\ activity[n] >= ActivityFloor
               /\ activity[n] <= One
          /\ \A e \in G_edges : e \in DOMAIN weight /\ weight[e] >= 0)
    /\ [][(/\ last' = "update" /\ raised' = "none"
           /\ node_counter' = node_counter + 1
           /\ node_counter \in G_nodes')
              => activity'[node_counter] = One]_vars

\* C19 witness: after two updates a node that aged twice sits on the floor
\* next to a node created by the second update
C19_FloorAndFresh ==
    /\ Updated /\ updates = 2
    /\ \E n \in G_nodes : activity[n] = ActivityFloor
    /\ node_counter - 1 \in G_nodes
    /\ activity[node_counter - 1] = One
    /\ config.node_aging_factor < PerMille

\* C20: when at least one visit is recorded, the keys of
\* get_visit_distribution() are the nodes with a recorded visit, each value
\* is that node's count over the sum of all counts (and so positive), and
\* the values sum to 1.
C20_DistributionNormalised ==
    LET d == get_visit_distribution(Walker)
        total == TotalVisits(visit_count)
        \* the value of a key in units of 1 / total
        share == [n \in DOMAIN d |-> d[n][1] * (total \div d[n][2])]
    IN (raised = "none" /\ total > 0) =>
           /\ DOMAIN d = {n \in 0..MaxNodeId : CountOf(visit_count, n) > 0}
           /\ \A n \in DOMAIN d :
                  /\ d[n][1] > 0
                  /\ d[n][1] * total = visit_count[n] * d[n][2]
                  /\ total % d[n][2] = 0
           /\ SumOver(share, DOMAIN d) = total

\* C20 witness: after two steps one node has two recorded visits and
\* another has one
C20_UnevenCounts ==
    /\ Stepped /\ steps = 2
    /\ \E n, m \in DOMAIN visit_count :
          visit_count[n] = 2 /\ visit_count[m] = 1

\* the walker was constructed or reset and has not stepped since
Unstepped == last \in {"init", "reset"} /\ raised = "none"

\* C21: right after construction or reset, before any step,
\* get_visit_distribution() returns the empty mapping, whatever the graph.
C21_EmptyBeforeFirstStep ==
    Unstepped => get_visit_distribution(Walker) = <<>>

\* C22: under every strategy, attach never joins the new node to a node whose
\* degree was already at or above max_degree when it was selected (a target
\* receives one edge, so that degree is its degree before the call).
C22_AttachSkipsSaturated ==
    [][last' = "_add_node" /\ updates' = updates + 1 =>
          \A e \in G_edges' \ G_edges :
              \A target \in e \ {node_counter} :
                  degree(Graph, target) < config.max_degree]_vars

C24_EdgelessBoosted ==
    [][(/\ G_edges = {}
        /\ last' = "enforce_degree_limits" /\ updates' = updates + 1
        /\ Cardinality(G_nodes) > config.min_degree
        /\ config.max_degree >= Cardinality(G_nodes) - 1)
           => /\ raised' = "none"
              /\ \A n \in G_nodes' :
                     Cardinality({e \in G_edges' : n \in e}) >= config.min_degree]_vars

\* C24 witness: five isolated nodes were repaired under min_degree = 2 (the
\* scenario of the specification)
C24_FiveNodesRepaired ==
    /\ DegreesEnforced /\ updates = 1
    /\ Cardinality(G_nodes) = 5
    /\ config.min_degree = 2 /\ config.max_degree = 15
    /\ G_edges # {}

\* the graph as _add_node hands it to attach: the node node_counter created
\* and initialised
WithNewNode ==
    pre_attach(_init_node([Graph EXCEPT !.G_nodes = @ \cup {node_counter}],
                          node_counter),
               node_counter)

\* C25: in preferential attachment the weight of a candidate is
\* degree ** exponent times 1.5 exactly when the candidate lies outside the
\* connected component of the node being attached, and times 1.0 exactly
\* when it lies inside (weights doubled: 3 and 2).
C25_BonusOutsideOwnComponent ==
    (raised = "none" /\ config.strategy = "preferential") =>
        LET own == node_connected_component(WithNewNode, node_counter)
            w == PreferentialCandidates(WithNewNode, node_counter)
        IN \A c \in DOMAIN w :
               w[c] = Pow(degree(WithNewNode, c), config.preferential_exponent)
                          * (IF c \in own THEN 2 ELSE 3)

\* C26: under every strategy one call of add_triadic_edges adds at most two
\* edges, removes none and keeps the node set; there is an edge (u, v) of
\* the graph around which every added edge closes an open triangle: it
\* joins one end of (u, v) to a neighbour of the other end that was not
\* adjacent to it (so it is no self-loop).
C26_TriadicClosure ==
    [][last' = "add_triadic_edges" /\ updates' = updates + 1 =>
          LET added == G_edges' \ G_edges
          IN /\ G_nodes' = G_nodes
             /\ G_edges \subseteq G_edges'
             /\ Cardinality(added) <= 2
             /\ \/ added = {}
                \/ \E e \in G_edges :
                      \A new \in added :
                          \E a \in e, b \in e, w \in G_nodes :
                              /\ a # b /\ w # a /\ w # b
                              /\ new = {a, w}
                              /\ has_edge(Graph, b, w)
                              /\ ~has_edge(Graph, a, w)]_vars

\* C26 witness: on the five-node graph thinned by enforce_degree_limits, with
\* no update in between, add_triadic_edges added edges
C26_TrianglesClosed ==
    /\ last = "add_triadic_edges" /\ raised = "none"
    /\ updates = 2 /\ time_step = 0
    /\ config = CappedConfig
    /\ G_nodes = 0..4
    /\ Cardinality(G_edges) = 8

\* the connected components of the graph after this transition
ComponentsAfter ==
    Range(connected_components([G_nodes |-> G_nodes', G_edges |-> G_edges']))

\* C27: when there are more components than target_components (at least 1),
\* the merge adds exactly one edge per excess component, from a node of that
\* component to a node of one of the kept components, which are
\* target_components of the largest; right after the merge the number of
\* components is target_components.
C27_MergeReachesTarget ==
    [][LET comps == Range(connected_components(Graph))
           target == config.target_components
           added == G_edges' \ G_edges
       IN (/\ last' = "_merge_components" /\ updates' = updates + 1
           /\ target >= 1 /\ Cardinality(comps) > target)
              => /\ raised' = "none"
                 /\ G_nodes' = G_nodes
                 /\ G_edges \subseteq G_edges'
                 /\ Cardinality(added) = Cardinality(comps) - target
                 /\ Cardinality(ComponentsAfter) = target
                 /\ \E kept \in SUBSET comps :
                       /\ Cardinality(kept) = target
                       /\ \A k \in kept, m \in comps \ kept :
                              Cardinality(k) >= Cardinality(m)
                       /\ \A m \in comps \ kept :
                              Cardinality({e \in added :
                                  e \cap m # {} /\ e \cap UNION kept # {}}) = 1]_vars

\* C27 witness: five isolated nodes were merged into two components
C27_FiveMergedIntoTwo ==
    /\ last = "_merge_components" /\ raised = "none"
    /\ updates = 1
    /\ Cardinality(G_nodes) = 5
    /\ config.target_components = 2
    /\ Cardinality(G_edges) = 3

\* the components of a set of components that are below min_component_size
SmallAmong(comps) == {c \in comps : Cardinality(c) < config.min_component_size}

\* C28: the size check joins every component below min_component_size, but
\* the largest one, by an edge to one largest component; when
\* enforce_component_rules has returned, at most one component of the graph
\* is below min_component_size.
C28_SmallJoinedToLargest ==
    [][/\ (last' = "_enforce_min_component_size" /\ updates' = updates + 1)
          => LET comps == Range(connected_components(Graph))
                 added == G_edges' \ G_edges
             IN /\ raised' = "none"
                /\ G_nodes' = G_nodes
                /\ G_edges \subseteq G_edges'
                /\ SmallAmong(comps) # {}
                      => \E largest \in comps :
                            /\ \A c \in comps : Cardinality(c) <= Cardinality(largest)
                            /\ \A c \in SmallAmong(comps) \ {largest} :
                                   \E e \in added :
                                      e \cap c # {} /\ e \cap largest # {}
                            /\ \A c \in ComponentsAfter :
                                   Cardinality(c) < config.min_component_size
                                      => largest \subseteq c
       /\ (/\ last' \in {"enforce_component_rules", "_enforce_min_component_size"}
           /\ updates' = updates + 1 /\ raised' = "none")
          => Cardinality(SmallAmong(ComponentsAfter)) <= 1]_vars

\* C28 witness: five isolated nodes, none a component of three, were joined
\* into one component by the size check
C28_FiveSinglesJoined ==
    /\ last = "_enforce_min_component_size" /\ raised = "none"
    /\ updates = 1
    /\ Cardinality(G_nodes) = 5
    /\ Cardinality(G_edges) = 4
    /\ Cardinality(Range(connected_components(Graph))) = 1

\* C29: a step that takes the stay transition leaves the position and the
\* history as they were, adds 1 to the visit count of the current node and
\* changes no other visit count.
C29_StayCountsInPlace ==
    [][(StepCall /\ last' = "stay")
          => /\ raised' = "none"
             /\ current_node' = current_node
             /\ path' = path
             /\ current_node \in DOMAIN visit_count
             /\ visit_count' = [visit_count EXCEPT ![current_node] = @ + 1]]_vars

\* the walker has teleported, by the draw or forced, from a node of the graph
Teleported ==
    StepCall /\ last' \in {"teleport", "forced"} /\ current_node \in G_nodes

\* C30: a teleport from a node of the graph ends, under "component", in the
\* component of that node; under "distant", outside that component, or
\* where it was when the component is the whole graph; under the remaining
\* strategy with max_teleport_distance = d > 0, within d hops of that node,
\* and with d <= 0 on a node of the graph.
C30_TeleportWithinCandidates ==
    [][Teleported =>
          LET own == node_connected_component(Graph, current_node)
          IN /\ raised' = "none"
             /\ CASE walker.teleport_strategy = "component" ->
                       current_node' \in own
                  [] walker.teleport_strategy = "distant" ->
                       IF G_nodes \subseteq own
                       THEN current_node' = current_node /\ path' = path
                       ELSE current_node' \in G_nodes \ own
                  [] OTHER ->
                       IF walker.max_teleport_distance > 0
                       THEN current_node' \in
                               WithinDistance(Graph, {current_node},
                                              walker.max_teleport_distance)
                       ELSE current_node' \in G_nodes]_vars

\* C30 witness: a walker limited to two hops has teleported two hops away
\* in a component that reaches further
C30_TeleportedTwoHops ==
    /\ last = "teleport" /\ raised = "none"
    /\ walker.teleport_strategy = "uniform"
    /\ walker.max_teleport_distance = 2
    /\ prev_node \in G_nodes
    /\ current_node \notin neighbors(Graph, prev_node) \cup {prev_node}
    /\ node_connected_component(Graph, prev_node)
          \ WithinDistance(Graph, {prev_node}, 2) # {}

\* C31: reset(start_node) on a non-empty graph leaves the history holding
\* the current position alone and the visit counts holding that position
\* with 1; the position is start_node when start_node is a node of the
\* graph and otherwise some node of the graph.  On an empty graph the
\* position is none and the history and the counts are empty.
C31_ResetStartsAfresh ==
    [][(last' = "reset" /\ steps' = steps + 1) =>
          /\ raised' = "none"
          /\ IF G_nodes = {}
             THEN /\ current_node' = None
                  /\ path' = <<>>
                  /\ visit_count' = <<>>
             ELSE /\ current_node' \in G_nodes
                  /\ call'.u \in G_nodes => current_node' = call'.u
                  /\ path' = <<current_node'>>
                  /\ DOMAIN visit_count' = {current_node'}
                  /\ visit_count'[current_node'] = 1]_vars

\* C31 witness: after a step, the walker was reset to a given node of the
\* graph other than the one it stood on
C31_ResetOntoGivenNode ==
    /\ last = "reset" /\ raised = "none"
    /\ steps = 2
    /\ call.u \in G_nodes
    /\ prev_node \in G_nodes
    /\ call.u # prev_node
    /\ current_node = call.u

\* C32: when update has returned, under a configuration with
\* min_degree <= max_degree, no node has a degree above max_degree.
C32_UpdateKeepsMaxDegree ==
    (Updated /\ config.min_degree <= config.max_degree)
        => \A n \in G_nodes : degree(Graph, n) <= config.max_degree

\* the branches the nested call of a forced teleport can take
NestedBranches ==
    {o.branch : o \in step(Graph, [Walker EXCEPT !.teleport_probability = Certain])}

\* C33: one call of step makes at most one transition: the history gains at
\* most one entry, the total of the visit counts grows by at most 1, and
\* the call that a forced teleport nests takes the stale-position or the
\* teleport branch, which return without nesting again.
C33_OneTransitionPerStep ==
    [][StepCall =>
          /\ \/ path' = path
             \/ \E n \in G_nodes : path' = PathAppend(path, n, walker.max_history)
          /\ TotalVisits(visit_count') <= TotalVisits(visit_count) + 1
          /\ last' = "forced" => NestedBranches \subseteq {"stale", "teleport"}]_vars

\* C33 witness: a walker that never teleports by the draw stood on a node
\* without neighbours and was moved by the forced teleport
C33_ForcedTeleportMoved ==
    /\ last = "forced" /\ raised = "none"
    /\ walker.teleport_probability = 0
    /\ prev_node \in G_nodes
    /\ neighbors(Graph, prev_node) = {}
    /\ current_node # prev_node
    /\ Len(path) = 2

=============================================================================
